---- MODULE Spec2Model ----
(***************************************************************************)
(* Model of the data/session core of the Event Management System:          *)
(*   EventModel (src/unnamed/part_001) and AuthModel                       *)
(*   (src/models/AuthModel.js), both persisting through localStorage.      *)
(*                                                                         *)
(* JavaScript values are tagged records: Null, Undefined, NaN, Num(n),     *)
(* Bool(b), Str(s) with s a sequence of one-character strings, and Ts(n)   *)
(* for the ISO string produced by new Date().toISOString() at clock n.     *)
(* JavaScript objects are functions from key names to such values, so      *)
(* DOMAIN o is the object's own key set.                                   *)
(***************************************************************************)
EXTENDS Integers, Sequences, FiniteSets, TLC

VARIABLES
    events,       \* EventModel.events   (array of event objects)
    nextId,       \* EventModel.nextId
    users,        \* AuthModel.users     (array of account objects)
    currentUser,  \* AuthModel.currentUser (session object or Null)
    nextUserId,   \* AuthModel.nextUserId
    storage,      \* localStorage: key -> blob or Null
    clock,        \* the value new Date() reads
    ret,          \* the last call: operation, arguments, returned value / thrown error
    issued        \* history: ids handed out by addEvent, in order

vars == <<events, nextId, users, currentUser, nextUserId, storage, clock, ret, issued>>
eventVars == <<events, nextId>>
authVars == <<users, currentUser, nextUserId>>

-----------------------------------------------------------------------------
(* Bounds *)
MaxClock == 3

-----------------------------------------------------------------------------
(* JavaScript values *)
Null == [t |-> "null"]
Undefined == [t |-> "undefined"]
NaN == [t |-> "nan"]
Num(n) == [t |-> "num", v |-> n]
Bool(b) == [t |-> "bool", v |-> b]
Str(s) == [t |-> "str", v |-> s]
Ts(n) == [t |-> "date", v |-> n]

IsStr(x) == x.t = "str"
IsNum(x) == x.t = "num"

\* ToBoolean: what `!x`, `x || y`, `x ? a : b` and `if (x)` test
Truthy(x) ==
    CASE "t" \notin DOMAIN x -> TRUE
      [] x.t = "null" -> FALSE
      [] x.t = "undefined" -> FALSE
      [] x.t = "nan" -> FALSE
      [] x.t = "num" -> x.v # 0
      [] x.t = "bool" -> x.v
      [] x.t = "str" -> Len(x.v) > 0
      [] OTHER -> TRUE

\* a === b on primitives (NaN is equal to nothing)
StrictEq(a, b) == a.t # "nan" /\ b.t # "nan" /\ a = b

(* Objects *)
EmptyObj == [k \in {} |-> Null]
Get(o, k) == IF k \in DOMAIN o THEN o[k] ELSE Undefined
Put(o, k, val) == [x \in DOMAIN o \cup {k} |-> IF x = k THEN val ELSE o[x]]
Omit(o, k) == [x \in DOMAIN o \ {k} |-> o[x]]
\* { ...a, ...b }
Spread(a, b) == [x \in DOMAIN a \cup DOMAIN b |-> IF x \in DOMAIN b THEN b[x] ELSE a[x]]

(* Strings *)
Space == " "
UpperChars == <<"A","B","C","D","E","F","G","H","I","J","K","L","M",
                "N","O","P","Q","R","S","T","U","V","W","X","Y","Z">>
LowerChars == <<"a","b","c","d","e","f","g","h","i","j","k","l","m",
                "n","o","p","q","r","s","t","u","v","w","x","y","z">>
DigitChars == <<"0","1","2","3","4","5","6","7","8","9">>

UpperSet == {UpperChars[i] : i \in 1..Len(UpperChars)}
LowerSet == {LowerChars[i] : i \in 1..Len(LowerChars)}
DigitSet == {DigitChars[i] : i \in 1..Len(DigitChars)}
LowerOf == [c \in UpperSet |-> LowerChars[CHOOSE i \in 1..Len(UpperChars) : UpperChars[i] = c]]
ValueOf == [c \in DigitSet |-> (CHOOSE i \in 1..Len(DigitChars) : DigitChars[i] = c) - 1]

IsUpper(c) == c \in UpperSet
IsLower(c) == c \in LowerSet
IsDigit(c) == c \in DigitSet
DigitVal(c) == ValueOf[c]
LowerChar(c) == IF IsUpper(c) THEN LowerOf[c] ELSE c

\* String.prototype.toLowerCase
ToLowerCase(x) == Str([i \in 1..Len(x.v) |-> LowerChar(x.v[i])])

\* String.prototype.trim
Trim(x) ==
    LET s == x.v
        NonSp == {i \in 1..Len(s) : s[i] # Space}
    IN  IF NonSp = {} THEN Str(<<>>)
        ELSE LET lo == CHOOSE i \in NonSp : \A j \in NonSp : i <= j
                 hi == CHOOSE i \in NonSp : \A j \in NonSp : i >= j
             IN  Str(SubSeq(s, lo, hi))

\* parseInt: a number is itself; of a string, the leading decimal digits after
\* leading whitespace, NaN when there are none
RECURSIVE DigitsValue(_, _)
DigitsValue(s, acc) ==
    IF s = <<>> \/ ~IsDigit(Head(s)) THEN acc
    ELSE DigitsValue(Tail(s), 10 * acc + DigitVal(Head(s)))

RECURSIVE SkipSpaces(_)
SkipSpaces(s) == IF s # <<>> /\ Head(s) = Space THEN SkipSpaces(Tail(s)) ELSE s

ParseInt(x) ==
    IF IsNum(x) THEN x
    ELSE IF IsStr(x)
         THEN LET s == SkipSpaces(x.v)
              IN  IF s = <<>> \/ ~IsDigit(Head(s)) THEN NaN ELSE Num(DigitsValue(s, 0))
         ELSE NaN

(* Arrays *)
\* Array.prototype.findIndex / find over the set of indices whose element
\* satisfies the callback: the first of them, 1-based, 0 for "not found"
\* (-1 in the source)
FindIndex(matches) ==
    IF matches = {} THEN 0
    ELSE CHOOSE i \in matches : \A j \in matches : i <= j


\* Splice1, had the call been arr.splice(index): everything from index on goes
Splice1_toEnd(arr, index) == SubSeq(arr, 1, index - 1)

\* arr.splice(index, 1): the array without the element at index
Splice1(arr, index) == SubSeq(arr, 1, index - 1) \o SubSeq(arr, index + 1, Len(arr))

RECURSIVE MaxOf(_)
MaxOf(S) ==
    LET x == CHOOSE y \in S : TRUE
    IN  IF S = {x} THEN x
        ELSE LET m == MaxOf(S \ {x}) IN IF x > m THEN x ELSE m

(* localStorage and JSON *)
\* JSON.stringify of an array of objects / of an object: keys holding
\* undefined are left out of the text
StripUndefined(o) == [k \in {x \in DOMAIN o : o[x] # Undefined} |-> o[k]]
StringifyArray(arr) == [t |-> "json", v |-> [i \in 1..Len(arr) |-> StripUndefined(arr[i])]]
StringifyObject(o) == [t |-> "json", v |-> StripUndefined(o)]
\* JSON.parse
Parse(blob) == blob.v

\* localStorage.setItem: ok = FALSE is the write that throws (quota exceeded)
SetItem(st, key, blob) == [st EXCEPT ![key] = blob]
RemoveItem(st, key) == [st EXCEPT ![key] = Null]

StorageKeys == {"events", "users", "currentUser"}

-----------------------------------------------------------------------------
(* EventModel *)

\* The outcome of a call
Returned(op, id, data, val) == [op |-> op, id |-> id, data |-> data, val |-> val, err |-> ""]
Threw(op, id, data, msg) == [op |-> op, id |-> id, data |-> data, val |-> Undefined, err |-> msg]

loadEvents(st) == IF Truthy(st["events"]) THEN Parse(st["events"]) ELSE <<>>

getNextId(evs) ==
    IF Len(evs) > 0 THEN MaxOf({evs[i]["id"].v : i \in 1..Len(evs)}) + 1 ELSE 1

RequiredFields == {"title", "description", "date", "time", "location"}

\* the guard of addEvent and updateEvent: some required field is falsy
MissingRequired(eventData) == \E f \in RequiredFields : ~Truthy(Get(eventData, f))

getEventById(evs, id) ==
    LET index == FindIndex({i \in 1..Len(evs) : StrictEq(evs[i]["id"], ParseInt(id))})
    IN  IF index = 0 THEN Null ELSE evs[index]


\* newEvent, had it dropped the caller's createdBy
newEvent_ignoresCreator(eventData, id, now) ==
    [ id          |-> Num(id),
      title       |-> Trim(eventData["title"]),
      description |-> Trim(eventData["description"]),
      date        |-> eventData["date"],
      time        |-> eventData["time"],
      location    |-> Trim(eventData["location"]),
      createdBy   |-> Str(<<"U","n","k","n","o","w","n">>),
      createdAt   |-> Ts(now),
      updatedAt   |-> Null ]

newEvent(eventData, id, now) ==
    [ id          |-> Num(id),
      title       |-> Trim(eventData["title"]),
      description |-> Trim(eventData["description"]),
      date        |-> eventData["date"],
      time        |-> eventData["time"],
      location    |-> Trim(eventData["location"]),
      createdBy   |-> IF Truthy(Get(eventData, "createdBy"))
                      THEN eventData["createdBy"] ELSE Str(<<"U","n","k","n","o","w","n">>),
      createdAt   |-> Ts(now),
      updatedAt   |-> Null ]


\* updatedEvent, had the update spread the caller's data over the record
updatedEvent_spreadsData(old, eventData, now) ==
    Spread(Spread(old, eventData),
      [ title       |-> Trim(eventData["title"]),
        description |-> Trim(eventData["description"]),
        date        |-> eventData["date"],
        time        |-> eventData["time"],
        location    |-> Trim(eventData["location"]),
        updatedAt   |-> Ts(now) ])

updatedEvent(old, eventData, now) ==
    Spread(old,
      [ title       |-> Trim(eventData["title"]),
        description |-> Trim(eventData["description"]),
        date        |-> eventData["date"],
        time        |-> eventData["time"],
        location    |-> Trim(eventData["location"]),
        updatedAt   |-> Ts(now) ])

\* saveEvents: the write either lands or throws and is swallowed
saveEvents(st, evs, ok) == IF ok THEN SetItem(st, "events", StringifyArray(evs)) ELSE st


(* Inputs of the EventModel operations *)
BaseEvent ==
    [ title       |-> Str(<<"T">>),
      description |-> Str(<<"D">>),
      date        |-> Str(<<"2","0","2","5","-","0","1","-","0","1">>),
      time        |-> Str(<<"1","0",":","0","0">>),
      location    |-> Str(<<"L">>) ]

EventInputs ==
    { BaseEvent,
      Put(BaseEvent, "title", Str(<<" ","X"," ">>)),
      Put(BaseEvent, "title", Str(<<" ">>)),
      Put(BaseEvent, "title", Str(<<>>)),
      Put(BaseEvent, "date", Str(<<" ">>)),
      Omit(BaseEvent, "time"),
      Spread(BaseEvent, [id |-> Num(7), createdBy |-> Str(<<"a","l","i","c","e">>),
                         createdAt |-> Ts(0), updatedAt |-> Null]) }

IdInputs == {Num(1), Num(2), Str(<<" ","2","x">>), Str(<<"x">>)}

(* Operations of EventModel *)

\* addEvent(eventData)
addEvent(eventData, ok) ==
    /\ clock < MaxClock
    /\ IF MissingRequired(eventData)
       THEN /\ ret' = Threw("addEvent", Null, eventData, "All fields are required")
            /\ UNCHANGED <<events, nextId, storage, clock, issued>>
       ELSE LET now == clock + 1
                event == newEvent(eventData, nextId, now)
            IN  /\ nextId' = nextId + 1
                /\ events' = Append(events, event)
                /\ storage' = saveEvents(storage, events', ok)
                /\ clock' = now
                /\ issued' = Append(issued, nextId)
                /\ ret' = Returned("addEvent", Null, eventData, event)
    /\ UNCHANGED authVars

\* updateEvent, had the required fields been checked before the lookup
updateEvent_validatesFirst(id, eventData, ok) ==
    /\ clock < MaxClock
    /\ LET index == FindIndex({i \in 1..Len(events) : StrictEq(events[i]["id"], ParseInt(id))})
       IN  IF MissingRequired(eventData)
           THEN /\ ret' = Threw("updateEvent", id, eventData, "All fields are required")
                /\ UNCHANGED <<events, storage, clock>>
           ELSE IF index = 0
           THEN /\ ret' = Returned("updateEvent", id, eventData, Null)
                /\ UNCHANGED <<events, storage, clock>>
           ELSE LET now == clock + 1
                IN  /\ events' = [events EXCEPT ![index] = updatedEvent(events[index], eventData, now)]
                    /\ storage' = saveEvents(storage, events', ok)
                    /\ clock' = now
                    /\ ret' = Returned("updateEvent", id, eventData, events'[index])
    /\ UNCHANGED <<nextId, issued>>
    /\ UNCHANGED authVars

\* updateEvent(id, eventData)
updateEvent(id, eventData, ok) ==
    /\ clock < MaxClock
    /\ LET index == FindIndex({i \in 1..Len(events) : StrictEq(events[i]["id"], ParseInt(id))})
       IN  IF index = 0
           THEN /\ ret' = Returned("updateEvent", id, eventData, Null)
                /\ UNCHANGED <<events, storage, clock>>
           ELSE IF MissingRequired(eventData)
           THEN /\ ret' = Threw("updateEvent", id, eventData, "All fields are required")
                /\ UNCHANGED <<events, storage, clock>>
           ELSE LET now == clock + 1
                IN  /\ events' = [events EXCEPT ![index] = updatedEvent(events[index], eventData, now)]
                    /\ storage' = saveEvents(storage, events', ok)
                    /\ clock' = now
                    /\ ret' = Returned("updateEvent", id, eventData, events'[index])
    /\ UNCHANGED <<nextId, issued>>
    /\ UNCHANGED authVars

\* deleteEvent(id)
deleteEvent(id, ok) ==
    /\ LET index == FindIndex({i \in 1..Len(events) : StrictEq(events[i]["id"], ParseInt(id))})
       IN  IF index = 0
           THEN /\ ret' = Returned("deleteEvent", id, EmptyObj, Null)
                /\ UNCHANGED <<events, storage>>
           ELSE /\ events' = Splice1(events, index)
                /\ storage' = saveEvents(storage, events', ok)
                /\ ret' = Returned("deleteEvent", id, EmptyObj, events[index])
    /\ UNCHANGED <<nextId, clock, issued>>
    /\ UNCHANGED authVars

\* clearAllEvents()
clearAllEvents(ok) ==
    /\ events' = <<>>
    /\ nextId' = 1
    /\ storage' = saveEvents(storage, events', ok)
    /\ ret' = Returned("clearAllEvents", Null, EmptyObj, Undefined)
    /\ UNCHANGED <<clock, issued>>
    /\ UNCHANGED authVars

\* new EventModel(): the store is rebuilt from localStorage
constructEventModel ==
    /\ events' = loadEvents(storage)
    /\ nextId' = getNextId(events')
    /\ ret' = Returned("new EventModel", Null, EmptyObj, Undefined)
    /\ UNCHANGED <<storage, clock, issued>>
    /\ UNCHANGED authVars


-----------------------------------------------------------------------------
(* AuthModel *)

DefaultAdmin(now) ==
    [ id        |-> Num(1),
      username  |-> Str(<<"a","d","m","i","n">>),
      password  |-> Str(<<"p","a","s","s","w","o","r","d">>),
      role      |-> Str(<<"a","d","m","i","n">>),
      email     |-> Str(<<"a","d","m","i","n","@","e","v","e","n","t","m","a","n","a","g","e","r",".","c","o","m">>),
      fullName  |-> Str(<<"S","y","s","t","e","m"," ","A","d","m","i","n","i","s","t","r","a","t","o","r">>),
      phone     |-> Str(<<"+","1","-","5","5","5","-","0","1","0","0">>),
      createdAt |-> Ts(now) ]

DefaultUser(now) ==
    [ id        |-> Num(2),
      username  |-> Str(<<"u","s","e","r">>),
      password  |-> Str(<<"1","2","3","4","5","6">>),
      role      |-> Str(<<"u","s","e","r">>),
      email     |-> Str(<<"u","s","e","r","@","e","v","e","n","t","m","a","n","a","g","e","r",".","c","o","m">>),
      fullName  |-> Str(<<"D","e","m","o"," ","U","s","e","r">>),
      phone     |-> Str(<<"+","1","-","5","5","5","-","0","1","0","1">>),
      createdAt |-> Ts(now) ]

defaultUsers(now) == <<DefaultAdmin(now), DefaultUser(now)>>

\* saveUsers(users): the write either lands or throws and is swallowed
saveUsers(st, us, ok) == IF ok THEN SetItem(st, "users", StringifyArray(us)) ELSE st

\* loadUsers, had it seeded over an empty persisted collection too
loadUsers_reseedsEmpty(st, now) ==
    IF Truthy(st["users"]) /\ Len(Parse(st["users"])) > 0 THEN Parse(st["users"]) ELSE defaultUsers(now)

\* loadUsers(): the persisted collection, or the two default accounts (which
\* are then saved) when the key holds nothing
loadUsers(st, now) == IF Truthy(st["users"]) THEN Parse(st["users"]) ELSE defaultUsers(now)
loadUsersStorage(st, now, ok) ==
    IF Truthy(st["users"]) THEN st ELSE saveUsers(st, defaultUsers(now), ok)

getNextUserId(us) ==
    IF Len(us) > 0 THEN MaxOf({us[i]["id"].v : i \in 1..Len(us)}) + 1 ELSE 1

\* loadCurrentUser, had it not read the persisted session
loadCurrentUser_forgets(st) == Null

loadCurrentUser(st) == IF Truthy(st["currentUser"]) THEN Parse(st["currentUser"]) ELSE Null

-----------------------------------------------------------------------------
EmptyStorage == [k \in StorageKeys |-> Null]

Arr(seq) == [t |-> "array", v |-> seq]

\* const { password, ...rest } = user
WithoutPassword(user) == Omit(user, "password")

\* /^[^\s@]+@[^\s@]+\.[^\s@]+$/
validateEmailFormat(email) ==
    LET s == email.v
    IN  /\ \A i \in 1..Len(s) : s[i] # Space
        /\ Cardinality({i \in 1..Len(s) : s[i] = "@"}) = 1
        /\ \E i \in 2..Len(s) :
             /\ s[i] = "@"
             /\ \E j \in (i + 2)..(Len(s) - 1) : s[j] = "."

\* /^[\+]?[1-9][\d]{0,15}$/ on phone.replace(/[\s\-\(\)]/g, '')
validatePhoneFormat(phone) ==
    LET s == SelectSeq(phone.v, LAMBDA c : c \notin {Space, "-", "(", ")"})
        d == IF s # <<>> /\ Head(s) = "+" THEN Tail(s) ELSE s
    IN  /\ Len(d) >= 1
        /\ Len(d) <= 16
        /\ IsDigit(d[1]) /\ d[1] # "0"
        /\ \A i \in 2..Len(d) : IsDigit(d[i])

\* /^[a-zA-Z0-9_]+$/
validUsernameChars(username) ==
    /\ Len(username.v) >= 1
    /\ \A i \in 1..Len(username.v) :
         LET c == username.v[i] IN IsLower(c) \/ IsUpper(c) \/ IsDigit(c) \/ c = "_"

\* saveCurrentUser(user): setItem, then the pointer; a throwing setItem skips both
saveCurrentUserStorage(st, user, ok) ==
    IF ok THEN SetItem(st, "currentUser", StringifyObject(user)) ELSE st
saveCurrentUserPointer(cur, user, ok) == IF ok THEN user ELSE cur


\* hasRole, had it tested only that somebody is logged in
hasRole_anySession(cur, role) == Truthy(cur)

hasRole(cur, role) == Truthy(cur) /\ Get(cur, "role") = role
isAdmin(cur) == hasRole(cur, Str(<<"a","d","m","i","n">>))

\* sessionUser, had every session been given the plain role
sessionUser_plainRole(user, now) ==
    [ id        |-> user["id"],
      username  |-> user["username"],
      role      |-> Str(<<"u","s","e","r">>),
      email     |-> Get(user, "email"),
      fullName  |-> Get(user, "fullName"),
      phone     |-> Get(user, "phone"),
      loginTime |-> Ts(now),
      lastLogin |-> Get(user, "lastLogin") ]

sessionUser(user, now) ==
    [ id        |-> user["id"],
      username  |-> user["username"],
      role      |-> Get(user, "role"),
      email     |-> Get(user, "email"),
      fullName  |-> Get(user, "fullName"),
      phone     |-> Get(user, "phone"),
      loginTime |-> Ts(now),
      lastLogin |-> Get(user, "lastLogin") ]


\* credentialsMatch, had the password comparison been left out
credentialsMatch_ignoresPassword(u, username, password) ==
    /\ ToLowerCase(u["username"]) = ToLowerCase(Trim(username))
    /\ Get(u, "isActive") # Bool(FALSE)

\* credentialsMatch, had the isActive test been left out
credentialsMatch_ignoresActive(u, username, password) ==
    /\ ToLowerCase(u["username"]) = ToLowerCase(Trim(username))
    /\ u["password"] = password

\* the predicate of the find in authenticate
credentialsMatch(u, username, password) ==
    /\ ToLowerCase(u["username"]) = ToLowerCase(Trim(username))
    /\ u["password"] = password
    /\ Get(u, "isActive") # Bool(FALSE)

\* authenticate, had it told a known username from an unknown one on failure
authenticate_namesCause(username, password, ok) ==
    /\ clock < MaxClock
    /\ LET args == [username |-> username, password |-> password]
       IN  IF ~Truthy(username) \/ ~Truthy(password)
           THEN /\ ret' = Threw("authenticate", Null, args, "Username and password are required")
                /\ UNCHANGED <<users, currentUser, storage, clock>>
           ELSE LET index == FindIndex({i \in 1..Len(users) : credentialsMatch(users[i], username, password)})
                IN  IF index = 0
                    THEN /\ ret' = IF \E i \in 1..Len(users) :
                                        ToLowerCase(users[i]["username"]) = ToLowerCase(Trim(username))
                                   THEN Threw("authenticate", Null, args, "Invalid password")
                                   ELSE Returned("authenticate", Null, args, Null)
                         /\ UNCHANGED <<users, currentUser, storage, clock>>
                    ELSE LET now == clock + 1
                             stamped == Put(users[index], "lastLogin", Ts(now))
                             session == sessionUser(stamped, now)
                         IN  /\ users' = [users EXCEPT ![index] = stamped]
                             /\ storage' = saveCurrentUserStorage(saveUsers(storage, users', ok), session, ok)
                             /\ currentUser' = saveCurrentUserPointer(currentUser, session, ok)
                             /\ clock' = now
                             /\ ret' = Returned("authenticate", Null, args, session)
    /\ UNCHANGED <<nextUserId, issued>>
    /\ UNCHANGED eventVars

\* authenticate(username, password)
authenticate(username, password, ok) ==
    /\ clock < MaxClock
    /\ LET args == [username |-> username, password |-> password]
       IN  IF ~Truthy(username) \/ ~Truthy(password)
           THEN /\ ret' = Threw("authenticate", Null, args, "Username and password are required")
                /\ UNCHANGED <<users, currentUser, storage, clock>>
           ELSE LET index == FindIndex({i \in 1..Len(users) : credentialsMatch(users[i], username, password)})
                IN  IF index = 0
                    THEN /\ ret' = Returned("authenticate", Null, args, Null)
                         /\ UNCHANGED <<users, currentUser, storage, clock>>
                    ELSE LET now == clock + 1
                             stamped == Put(users[index], "lastLogin", Ts(now))
                             session == sessionUser(stamped, now)
                         IN  /\ users' = [users EXCEPT ![index] = stamped]
                             /\ storage' = saveCurrentUserStorage(saveUsers(storage, users', ok), session, ok)
                             /\ currentUser' = saveCurrentUserPointer(currentUser, session, ok)
                             /\ clock' = now
                             /\ ret' = Returned("authenticate", Null, args, session)
    /\ UNCHANGED <<nextUserId, issued>>
    /\ UNCHANGED eventVars

AllowedFields == {"fullName", "email", "phone"}

\* applyAllowedFields, had every key of the patch been copied
applyAllowedFields_everyKey(user, updateData) ==
    [k \in DOMAIN user \cup {f \in DOMAIN updateData : updateData[f] # Undefined} |->
        IF k \in DOMAIN updateData /\ updateData[k] # Undefined
        THEN (IF IsStr(updateData[k]) THEN Trim(updateData[k]) ELSE updateData[k]) ELSE user[k]]

\* the allowedFields.forEach of updateUserProfile
applyAllowedFields(user, updateData) ==
    [k \in DOMAIN user \cup {f \in AllowedFields : Get(updateData, f) # Undefined} |->
        IF k \in AllowedFields /\ Get(updateData, k) # Undefined
        THEN Trim(updateData[k]) ELSE user[k]]


\* refreshedSession, had the account been spread without stripping its password
refreshedSession_keepsPassword(cur, user) == Spread(cur, user)

\* the session refresh of updateUserProfile: { ...this.currentUser, ...userProfile }
refreshedSession(cur, user) == Spread(cur, WithoutPassword(user))

\* updateUserProfile(userId, updateData)
updateUserProfile(userId, updateData, ok) ==
    /\ clock < MaxClock
    /\ LET userIndex == FindIndex({i \in 1..Len(users) : StrictEq(users[i]["id"], ParseInt(userId))})
           email == Get(updateData, "email")
           phone == Get(updateData, "phone")
       IN  IF userIndex = 0
           THEN /\ ret' = Threw("updateUserProfile", userId, updateData, "User not found")
                /\ UNCHANGED <<users, currentUser, storage, clock>>
           ELSE IF /\ Truthy(email) /\ email # users[userIndex]["email"]
                   /\ \E i \in 1..Len(users) :
                        /\ ToLowerCase(users[i]["email"]) = ToLowerCase(email)
                        /\ ~StrictEq(users[i]["id"], userId)
           THEN /\ ret' = Threw("updateUserProfile", userId, updateData, "Email address already in use")
                /\ UNCHANGED <<users, currentUser, storage, clock>>
           ELSE IF /\ Truthy(email) /\ email # users[userIndex]["email"]
                   /\ ~validateEmailFormat(email)
           THEN /\ ret' = Threw("updateUserProfile", userId, updateData, "Please enter a valid email address")
                /\ UNCHANGED <<users, currentUser, storage, clock>>
           ELSE IF Truthy(phone) /\ ~validatePhoneFormat(phone)
           THEN /\ ret' = Threw("updateUserProfile", userId, updateData, "Please enter a valid phone number")
                /\ UNCHANGED <<users, currentUser, storage, clock>>
           ELSE LET now == clock + 1
                    updated == Put(applyAllowedFields(users[userIndex], updateData), "updatedAt", Ts(now))
                    refresh == Truthy(currentUser) /\ StrictEq(currentUser["id"], userId)
                    session == refreshedSession(currentUser, updated)
                    st1 == saveUsers(storage, [users EXCEPT ![userIndex] = updated], ok)
                IN  /\ users' = [users EXCEPT ![userIndex] = updated]
                    /\ storage' = IF refresh THEN saveCurrentUserStorage(st1, session, ok) ELSE st1
                    /\ currentUser' = IF refresh THEN saveCurrentUserPointer(currentUser, session, ok)
                                      ELSE currentUser
                    /\ clock' = now
                    /\ ret' = Returned("updateUserProfile", userId, updateData, WithoutPassword(updated))
    /\ UNCHANGED <<nextUserId, issued>>
    /\ UNCHANGED eventVars


\* newUser, had the account been built by spreading the caller's data under the defaults
newUser_spreadsData(userData, id, now) ==
    Spread(
      [ id        |-> Num(id),
        username  |-> Trim(userData["username"]),
        password  |-> userData["password"],
        role      |-> Str(<<"u","s","e","r">>),
        email     |-> ToLowerCase(Trim(userData["email"])),
        fullName  |-> Trim(userData["fullName"]),
        phone     |-> IF Truthy(Get(userData, "phone")) THEN Trim(userData["phone"]) ELSE Str(<<>>),
        createdAt |-> Ts(now),
        isActive  |-> Bool(TRUE),
        lastLogin |-> Null ],
      [k \in DOMAIN userData \cap {"role", "isActive"} |-> userData[k]])

newUser(userData, id, now) ==
    [ id        |-> Num(id),
      username  |-> Trim(userData["username"]),
      password  |-> userData["password"],
      role      |-> Str(<<"u","s","e","r">>),
      email     |-> ToLowerCase(Trim(userData["email"])),
      fullName  |-> Trim(userData["fullName"]),
      phone     |-> IF Truthy(Get(userData, "phone")) THEN Trim(userData["phone"]) ELSE Str(<<>>),
      createdAt |-> Ts(now),
      isActive  |-> Bool(TRUE),
      lastLogin |-> Null ]

\* registerError, had the email uniqueness check been left out
registerError_noEmailCheck(us, userData) ==
    LET username == Get(userData, "username")
        password == Get(userData, "password")
        email == Get(userData, "email")
        fullName == Get(userData, "fullName")
        phone == Get(userData, "phone")
    IN  IF ~Truthy(username) \/ ~Truthy(password) \/ ~Truthy(email) \/ ~Truthy(fullName)
        THEN "Username, password, email, and full name are required"
        ELSE IF Len(username.v) < 3
        THEN "Username must be at least 3 characters long"
        ELSE IF ~validUsernameChars(username)
        THEN "Username can only contain letters, numbers, and underscores"
        ELSE IF \E i \in 1..Len(us) : ToLowerCase(us[i]["username"]) = ToLowerCase(username)
        THEN "Username already exists"
        ELSE IF ~validateEmailFormat(email)
        THEN "Please enter a valid email address"
        ELSE IF Len(password.v) < 6
        THEN "Password must be at least 6 characters long"
        ELSE IF Truthy(phone) /\ ~validatePhoneFormat(phone)
        THEN "Please enter a valid phone number"
        ELSE ""

\* the checks of registerUser in source order: the message of the first one
\* that fails, "" when all pass
registerError(us, userData) ==
    LET username == Get(userData, "username")
        password == Get(userData, "password")
        email == Get(userData, "email")
        fullName == Get(userData, "fullName")
        phone == Get(userData, "phone")
    IN  IF ~Truthy(username) \/ ~Truthy(password) \/ ~Truthy(email) \/ ~Truthy(fullName)
        THEN "Username, password, email, and full name are required"
        ELSE IF Len(username.v) < 3
        THEN "Username must be at least 3 characters long"
        ELSE IF ~validUsernameChars(username)
        THEN "Username can only contain letters, numbers, and underscores"
        ELSE IF \E i \in 1..Len(us) : ToLowerCase(us[i]["username"]) = ToLowerCase(username)
        THEN "Username already exists"
        ELSE IF \E i \in 1..Len(us) : ToLowerCase(us[i]["email"]) = ToLowerCase(email)
        THEN "Email address already registered"
        ELSE IF ~validateEmailFormat(email)
        THEN "Please enter a valid email address"
        ELSE IF Len(password.v) < 6
        THEN "Password must be at least 6 characters long"
        ELSE IF Truthy(phone) /\ ~validatePhoneFormat(phone)
        THEN "Please enter a valid phone number"
        ELSE ""

\* registerUser(userData)
registerUser(userData, ok) ==
    /\ clock < MaxClock
    /\ LET msg == registerError(users, userData)
       IN  IF msg # ""
           THEN /\ ret' = Threw("registerUser", Null, userData, msg)
                /\ UNCHANGED <<users, nextUserId, storage, clock>>
           ELSE LET now == clock + 1
                    created == newUser(userData, nextUserId, now)
                IN  /\ nextUserId' = nextUserId + 1
                    /\ users' = Append(users, created)
                    /\ storage' = saveUsers(storage, users', ok)
                    /\ clock' = now
                    /\ ret' = Returned("registerUser", Null, userData, WithoutPassword(created))
    /\ UNCHANGED <<currentUser, issued>>
    /\ UNCHANGED eventVars

\* changePassword, had the current password not been verified
changePassword_unverified(currentPassword, newPassword) ==
    /\ LET args == [currentPassword |-> currentPassword, newPassword |-> newPassword]
           userIndex == FindIndex({i \in 1..Len(users) : StrictEq(users[i]["username"], currentUser["username"])})
       IN  IF ~Truthy(currentUser)
           THEN /\ ret' = Threw("changePassword", Null, args, "User not authenticated")
                /\ UNCHANGED users
           ELSE IF userIndex = 0
           THEN /\ ret' = Returned("changePassword", Null, args, Bool(FALSE))
                /\ UNCHANGED users
           ELSE IF FALSE
           THEN /\ ret' = Threw("changePassword", Null, args, "Current password is incorrect")
                /\ UNCHANGED users
           ELSE IF ~Truthy(newPassword) \/ Len(newPassword.v) < 6
           THEN /\ ret' = Threw("changePassword", Null, args,
                                "New password must be at least 6 characters long")
                /\ UNCHANGED users
           ELSE /\ users' = [users EXCEPT ![userIndex] = Put(@, "password", newPassword)]
                /\ ret' = Returned("changePassword", Null, args, Bool(TRUE))
    /\ UNCHANGED <<currentUser, nextUserId, storage, clock, issued>>
    /\ UNCHANGED eventVars

\* changePassword, had it called saveUsers after the overwrite
changePassword_persists(currentPassword, newPassword) ==
    /\ LET args == [currentPassword |-> currentPassword, newPassword |-> newPassword]
           userIndex == FindIndex({i \in 1..Len(users) : StrictEq(users[i]["username"], currentUser["username"])})
       IN  IF ~Truthy(currentUser)
           THEN /\ ret' = Threw("changePassword", Null, args, "User not authenticated")
                /\ UNCHANGED users
           ELSE IF userIndex = 0
           THEN /\ ret' = Returned("changePassword", Null, args, Bool(FALSE))
                /\ UNCHANGED users
           ELSE IF users[userIndex]["password"] # currentPassword
           THEN /\ ret' = Threw("changePassword", Null, args, "Current password is incorrect")
                /\ UNCHANGED users
           ELSE IF ~Truthy(newPassword) \/ Len(newPassword.v) < 6
           THEN /\ ret' = Threw("changePassword", Null, args,
                                "New password must be at least 6 characters long")
                /\ UNCHANGED users
           ELSE /\ users' = [users EXCEPT ![userIndex] = Put(@, "password", newPassword)]
                /\ ret' = Returned("changePassword", Null, args, Bool(TRUE))
    /\ storage' = saveUsers(storage, users', TRUE)
    /\ UNCHANGED <<currentUser, nextUserId, clock, issued>>
    /\ UNCHANGED eventVars

\* changePassword(currentPassword, newPassword)
changePassword(currentPassword, newPassword) ==
    /\ LET args == [currentPassword |-> currentPassword, newPassword |-> newPassword]
           userIndex == FindIndex({i \in 1..Len(users) : StrictEq(users[i]["username"], currentUser["username"])})
       IN  IF ~Truthy(currentUser)
           THEN /\ ret' = Threw("changePassword", Null, args, "User not authenticated")
                /\ UNCHANGED users
           ELSE IF userIndex = 0
           THEN /\ ret' = Returned("changePassword", Null, args, Bool(FALSE))
                /\ UNCHANGED users
           ELSE IF users[userIndex]["password"] # currentPassword
           THEN /\ ret' = Threw("changePassword", Null, args, "Current password is incorrect")
                /\ UNCHANGED users
           ELSE IF ~Truthy(newPassword) \/ Len(newPassword.v) < 6
           THEN /\ ret' = Threw("changePassword", Null, args,
                                "New password must be at least 6 characters long")
                /\ UNCHANGED users
           ELSE /\ users' = [users EXCEPT ![userIndex] = Put(@, "password", newPassword)]
                /\ ret' = Returned("changePassword", Null, args, Bool(TRUE))
    /\ UNCHANGED <<currentUser, nextUserId, storage, clock, issued>>
    /\ UNCHANGED eventVars

\* logout, had it cleared the pointer only
logout_keepsPersisted(ok) ==
    /\ storage' = storage
    /\ currentUser' = IF ok THEN Null ELSE currentUser
    /\ ret' = Returned("logout", Null, EmptyObj, Undefined)
    /\ UNCHANGED <<users, nextUserId, clock, issued>>
    /\ UNCHANGED eventVars

\* logout(): removeItem, then the pointer; a throwing removeItem skips both
logout(ok) ==
    /\ storage' = IF ok THEN RemoveItem(storage, "currentUser") ELSE storage
    /\ currentUser' = IF ok THEN Null ELSE currentUser
    /\ ret' = Returned("logout", Null, EmptyObj, Undefined)
    /\ UNCHANGED <<users, nextUserId, clock, issued>>
    /\ UNCHANGED eventVars

AccessDenied == "Access denied. Admin privileges required."

\* the value getAllUsers() produces: an error for a non-admin, otherwise
\* every account without its password
getAllUsersOutcome(us, cur) ==
    IF ~isAdmin(cur)
    THEN Threw("getAllUsers", Null, EmptyObj, AccessDenied)
    ELSE Returned("getAllUsers", Null, EmptyObj, Arr([i \in 1..Len(us) |-> WithoutPassword(us[i])]))

\* getAllUsers()
getAllUsers ==
    /\ ret' = getAllUsersOutcome(users, currentUser)
    /\ UNCHANGED <<users, currentUser, nextUserId, storage, clock, issued>>
    /\ UNCHANGED eventVars

getUserByUsernameOutcome(us, cur, username) ==
    LET args == [username |-> username]
        index == FindIndex({i \in 1..Len(us) : StrictEq(us[i]["username"], username)})
    IN  IF ~isAdmin(cur)
        THEN Threw("getUserByUsername", Null, args, AccessDenied)
        ELSE IF index # 0
        THEN Returned("getUserByUsername", Null, args, WithoutPassword(us[index]))
        ELSE Returned("getUserByUsername", Null, args, Null)

\* getUserByUsername(username)
getUserByUsername(username) ==
    /\ ret' = getUserByUsernameOutcome(users, currentUser, username)
    /\ UNCHANGED <<users, currentUser, nextUserId, storage, clock, issued>>
    /\ UNCHANGED eventVars

\* UserManagement.exportUsers(format), had it read the collection without
\* going through getAllUsers
exportUsersOutcome_unchecked(us, cur, format) ==
    Returned("exportUsers", Null, [format |-> format],
             [format |-> format, users |-> Arr([i \in 1..Len(us) |-> WithoutPassword(us[i])])])

\* UserManagement.exportUsers(format): the file handed to the download is
\* built from what getAllUsers() returns; when that throws, nothing is
\* downloaded and the view shows the error (recorded in err)
exportUsersOutcome(us, cur, format) ==
    LET all == getAllUsersOutcome(us, cur)
    IN  IF all.err # ""
        THEN Threw("exportUsers", Null, [format |-> format], "Failed to export user data")
        ELSE Returned("exportUsers", Null, [format |-> format], [format |-> format, users |-> all.val])

exportUsers(format) ==
    /\ ret' = exportUsersOutcome(users, currentUser, format)
    /\ UNCHANGED <<users, currentUser, nextUserId, storage, clock, issued>>
    /\ UNCHANGED eventVars

\* EventController.getStatistics(): the admin check, then the counts of the
\* two collections (the three counts that compare event dates with the
\* current date are left out)
getStatisticsOutcome(evs, us, cur) ==
    IF ~isAdmin(cur)
    THEN Threw("getStatistics", Null, EmptyObj, AccessDenied)
    ELSE Returned("getStatistics", Null, EmptyObj,
                  [totalEvents |-> Num(Len(evs)), totalUsers |-> Num(Len(getAllUsersOutcome(us, cur).val.v))])

getStatistics ==
    /\ ret' = getStatisticsOutcome(events, users, currentUser)
    /\ UNCHANGED <<users, currentUser, nextUserId, storage, clock, issued>>
    /\ UNCHANGED eventVars

\* the value getUserProfile(userId) produces
getUserProfileOutcome(us, userId) ==
    LET index == FindIndex({i \in 1..Len(us) : StrictEq(us[i]["id"], ParseInt(userId))})
    IN  IF index # 0
        THEN Returned("getUserProfile", userId, EmptyObj, WithoutPassword(us[index]))
        ELSE Returned("getUserProfile", userId, EmptyObj, Null)

\* getUserProfile(userId)
getUserProfile(userId) ==
    /\ ret' = getUserProfileOutcome(users, userId)
    /\ UNCHANGED <<users, currentUser, nextUserId, storage, clock, issued>>
    /\ UNCHANGED eventVars

\* new AuthModel(): the store is rebuilt from localStorage
constructAuthModel(ok) ==
    /\ users' = loadUsers(storage, clock)
    /\ storage' = loadUsersStorage(storage, clock, ok)
    /\ currentUser' = loadCurrentUser(storage')
    /\ nextUserId' = getNextUserId(users')
    /\ ret' = Returned("new AuthModel", Null, EmptyObj, Undefined)
    /\ UNCHANGED <<clock, issued>>
    /\ UNCHANGED eventVars

-----------------------------------------------------------------------------
(* Inputs of the AuthModel operations *)
UsernameInputs == {Str(<<" ","A","D","M","I","N"," ">>), Str(<<"b","o","b","_","1">>), Str(<<>>)}
PasswordInputs == {Str(<<"p","a","s","s","w","o","r","d">>), Str(<<"s","e","c","r","e","t","1">>)}
NewPasswordInputs == {Str(<<"s","e","c","r","e","t","1">>), Str(<<"a","b","c">>)}
LookupInputs == {Str(<<"a","d","m","i","n">>), Str(<<"A","D","M","I","N">>)}
UserIdInputs == {Num(1), Str(<<"1">>), Num(2), Num(9)}
ExportFormats == {Str(<<"j","s","o","n">>), Str(<<"c","s","v">>)}

BaseRegistration ==
    [ username |-> Str(<<"b","o","b","_","1">>),
      password |-> Str(<<"s","e","c","r","e","t","1">>),
      email    |-> Str(<<"B","o","b","@","x",".","i","o">>),
      fullName |-> Str(<<" ","B","o","b"," ">>),
      phone    |-> Str(<<>>),
      role     |-> Str(<<"a","d","m","i","n">>),
      isActive |-> Bool(FALSE) ]

RegisterInputs ==
    { BaseRegistration,
      Put(BaseRegistration, "username", Str(<<"A","D","M","I","N">>)),
      Put(BaseRegistration, "email", Str(<<"U","S","E","R","@","e","v","e","n","t","m","a","n","a","g","e","r",".","c","o","m">>)),
      Spread(BaseRegistration, [username |-> Str(<<"A","d","m","i","n">>), email |-> Str(<<"U","S","E","R","@","e","v","e","n","t","m","a","n","a","g","e","r",".","c","o","m">>)]),
      Spread(BaseRegistration, [username |-> Str(<<"a","b">>), email |-> Str(<<"U","S","E","R","@","e","v","e","n","t","m","a","n","a","g","e","r",".","c","o","m">>)]),
      Omit(Put(BaseRegistration, "username", Str(<<"A","D","M","I","N">>)), "password"),
      Put(BaseRegistration, "email", Str(<<"b","o","b">>)) }

ProfileInputs ==
    { [email |-> Str(<<>>)],
      [email |-> Str(<<"U","S","E","R","@","e","v","e","n","t","m","a","n","a","g","e","r",".","c","o","m">>)],
      [email |-> Str(<<"n","@","x",".","i","o">>), fullName |-> Str(<<" ","N"," ">>), phone |-> Str(<<"+","1"," ","5">>),
       password |-> Str(<<"h","a","c","k","e","d">>), role |-> Str(<<"a","d","m","i","n">>), id |-> Num(5)],
      [phone |-> Str(<<"a","b","c">>)] }

-----------------------------------------------------------------------------
(* The state after the first construction of both models on an empty localStorage *)
InitWrites(ok) ==
    /\ clock = 0
    /\ storage = loadUsersStorage(EmptyStorage, 0, ok)
    /\ events = loadEvents(EmptyStorage)
    /\ nextId = getNextId(events)
    /\ users = loadUsers(EmptyStorage, 0)
    /\ currentUser = loadCurrentUser(storage)
    /\ nextUserId = getNextUserId(users)
    /\ ret = Returned("new", Null, EmptyObj, Undefined)
    /\ issued = <<>>

Init == InitWrites(TRUE)

\* EventModel alone, every write landing
NextEvents ==
    \/ \E d \in EventInputs : addEvent(d, TRUE)
    \/ \E id \in IdInputs, d \in EventInputs : updateEvent(id, d, TRUE)
    \/ \E id \in IdInputs : deleteEvent(id, TRUE)
    \/ clearAllEvents(TRUE)
    \/ constructEventModel

SpecEvents == Init /\ [][NextEvents]_vars

\* AuthModel alone, every write landing
NextAuth ==
    \/ \E u \in UsernameInputs, p \in PasswordInputs : authenticate(u, p, TRUE)
    \/ \E d \in RegisterInputs : registerUser(d, TRUE)
    \/ \E id \in UserIdInputs, d \in ProfileInputs : updateUserProfile(id, d, TRUE)
    \/ \E c \in PasswordInputs, n \in NewPasswordInputs : changePassword(c, n)
    \/ logout(TRUE)
    \/ getAllUsers
    \/ \E u \in LookupInputs : getUserByUsername(u)
    \/ \E f \in ExportFormats : exportUsers(f)
    \/ \E id \in UserIdInputs : getUserProfile(id)
    \/ getStatistics
    \/ constructAuthModel(TRUE)

SpecAuth == Init /\ [][NextAuth]_vars

Next == NextEvents \/ NextAuth

Spec == Init /\ [][Next]_vars

-----------------------------------------------------------------------------
(* Properties of EventModel, checked under SpecEvents *)

\* C1 (as claimed): event ids are pairwise distinct within the collection and
\* no id that addEvent ever assigned is assigned again to a later event.
C1_IdsDistinctNeverReused ==
    /\ \A i, j \in 1..Len(events) : i # j => events[i]["id"] # events[j]["id"]
    /\ \A i, j \in 1..Len(issued) : i # j => issued[i] # issued[j]

\* C7 (as claimed): every stored event has title, description, location, date
\* and time non-empty after trimming.
C7_RequiredFieldsNonEmptyTrimmed ==
    \A i \in 1..Len(events) : \A f \in RequiredFields : Trim(events[i][f]) # Str(<<>>)

\* C8: a successful updateEvent(id, data) leaves the record's id, createdBy and
\* createdAt as they were before the call, whatever keys data carries, and sets
\* updatedAt to the time of the call, which is not null.
C8_UpdateKeepsIdentity ==
    [][ (ret'.op = "updateEvent" /\ ret'.err = "" /\ ret'.val # Null) =>
          LET old == getEventById(events, ret'.id)
              new == getEventById(events', ret'.id)
          IN  /\ old # Null /\ new # Null
              /\ new = ret'.val
              /\ new["id"] = old["id"]
              /\ new["createdBy"] = old["createdBy"]
              /\ new["createdAt"] = old["createdAt"]
              /\ new["updatedAt"] = Ts(clock')
              /\ new["updatedAt"] # Null
              /\ clock' > clock ]_vars

\* a successful update whose data carried its own id, createdBy and createdAt
C8_Witness ==
    /\ ret.op = "updateEvent" /\ ret.err = "" /\ ret.val # Null
    /\ {"id", "createdBy", "createdAt"} \subseteq DOMAIN ret.data
    /\ ret.val["id"] # ret.data["id"]

\* the five required fields are non-empty after trimming
ValidEventInput(eventData) ==
    \A f \in RequiredFields :
        /\ IsStr(Get(eventData, f))
        /\ Trim(eventData[f]) # Str(<<>>)

EchoedFields == {"title", "description", "date", "time", "location", "createdBy"}

\* C9 (as claimed): after addEvent of a valid input, getEventById(new id)
\* returns a record whose title, description, date, time, location and
\* createdBy equal the input's, with the new id, a createdAt and updatedAt null.
C9_CreateThenGetEqualsInput ==
    (ret.op = "addEvent" /\ ValidEventInput(ret.data)) =>
        /\ ret.err = ""
        /\ LET r == getEventById(events, ret.val["id"])
           IN  /\ r # Null
               /\ \A f \in EchoedFields : f \in DOMAIN ret.data => r[f] = ret.data[f]
               /\ r["id"] = ret.val["id"]
               /\ r["createdAt"] # Null
               /\ r["updatedAt"] = Null

\* C9 (amended): after an addEvent that accepts its input, getEventById(new id)
\* returns the created record: title, description and location are the input's
\* trimmed, date and time are the input's, createdBy is the input's or
\* "Unknown" when the input has none, id is the id assigned (the previous
\* next-id), createdAt is the time of the call and updatedAt is null.
C9_CreateThenGetTrimmed ==
    (ret.op = "addEvent" /\ ret.err = "") =>
        LET r == getEventById(events, ret.val["id"])
            d == ret.data
        IN  /\ r # Null
            /\ r = ret.val
            /\ r = events[Len(events)]
            /\ r["title"] = Trim(d["title"])
            /\ r["description"] = Trim(d["description"])
            /\ r["location"] = Trim(d["location"])
            /\ r["date"] = d["date"]
            /\ r["time"] = d["time"]
            /\ r["createdBy"] = IF Truthy(Get(d, "createdBy")) THEN d["createdBy"]
                                ELSE Str(<<"U","n","k","n","o","w","n">>)
            /\ r["id"] = Num(nextId - 1)
            /\ r["createdAt"] = Ts(clock)
            /\ r["updatedAt"] = Null

\* a create of an input with surrounding blanks and one naming its creator,
\* into a collection that already holds events
C9_Witness ==
    /\ ret.op = "addEvent" /\ ret.err = ""
    /\ Len(events) >= 2
    /\ \E i \in 1..Len(events) : events[i]["title"] # Trim(Str(<<" ","X"," ">>))
    /\ \/ ret.data["title"] # Trim(ret.data["title"])
       \/ Truthy(Get(ret.data, "createdBy"))

\* C10: for an id present in the collection, deleteEvent(id) returns the
\* removed record, getEventById(id) right after yields null, and the other
\* events stay, unchanged and in their order.
C10_DeleteRemovesOnlyThat ==
    [][ (ret'.op = "deleteEvent" /\ getEventById(events, ret'.id) # Null) =>
          LET gone == getEventById(events, ret'.id)
          IN  /\ ret'.err = ""
              /\ ret'.val = gone
              /\ getEventById(events', ret'.id) = Null
              /\ events' = SelectSeq(events, LAMBDA e : e # gone)
              /\ Len(events') = Len(events) - 1 ]_vars

\* a delete, by an id given as text, of an event that had one before and one after it
C10_Witness ==
    /\ ret.op = "deleteEvent" /\ ret.val # Null
    /\ Len(events) = 2
    /\ events[1]["id"].v < ret.val["id"].v
    /\ ret.val["id"].v < events[2]["id"].v

-----------------------------------------------------------------------------
(* Properties of AuthModel, checked under SpecAuth *)

\* C2 (as claimed): no two distinct accounts have usernames equal ignoring
\* case, and no two have emails equal ignoring case.
C2_UsernamesEmailsUnique ==
    \A i, j \in 1..Len(users) :
        i # j =>
            /\ ToLowerCase(users[i]["username"]) # ToLowerCase(users[j]["username"])
            /\ ToLowerCase(users[i]["email"]) # ToLowerCase(users[j]["email"])

\* C3: the session returned by authenticate, the in-memory session and its
\* persisted copy never carry a password field.
C3_SessionHasNoPassword ==
    /\ Truthy(currentUser) => "password" \notin DOMAIN currentUser
    /\ Truthy(storage["currentUser"]) => "password" \notin DOMAIN Parse(storage["currentUser"])
    /\ (ret.op = "authenticate" /\ ret.err = "" /\ ret.val # Null) =>
           "password" \notin DOMAIN ret.val

\* a session that updateUserProfile refreshed from the account, persisted
C3_Witness ==
    /\ Truthy(currentUser)
    /\ "updatedAt" \in DOMAIN currentUser
    /\ Truthy(storage["currentUser"])
    /\ Parse(storage["currentUser"]) = currentUser

SessionIsAdmin == currentUser # Null /\ currentUser["role"] = Str(<<"a","d","m","i","n">>)

\* C4: getAllUsers and getUserByUsername throw the access-denied error when no
\* session is present or its role is not admin; for an admin session
\* getAllUsers returns every account, and getUserByUsername the account found,
\* without the password field.
C4_AdminQueriesGated ==
    /\ ret.op = "getAllUsers" =>
         IF SessionIsAdmin
         THEN /\ ret.err = ""
              /\ Len(ret.val.v) = Len(users)
              /\ \A i \in 1..Len(users) :
                   /\ DOMAIN ret.val.v[i] = DOMAIN users[i] \ {"password"}
                   /\ \A k \in DOMAIN ret.val.v[i] : ret.val.v[i][k] = users[i][k]
         ELSE ret.err = AccessDenied /\ ret.val = Undefined
    /\ ret.op = "getUserByUsername" =>
         IF SessionIsAdmin
         THEN /\ ret.err = ""
              /\ \/ /\ ret.val = Null
                    /\ \A i \in 1..Len(users) : users[i]["username"] # ret.data["username"]
                 \/ \E i \in 1..Len(users) :
                      /\ users[i]["username"] = ret.data["username"]
                      /\ DOMAIN ret.val = DOMAIN users[i] \ {"password"}
                      /\ \A k \in DOMAIN ret.val : ret.val[k] = users[i][k]
         ELSE ret.err = AccessDenied /\ ret.val = Undefined

\* getAllUsers called under the session of a registered, non-admin account
C4_Witness ==
    /\ ret.op = "getAllUsers"
    /\ currentUser # Null
    /\ currentUser["role"] = Str(<<"u","s","e","r">>)
    /\ Len(users) = 3
    /\ ret.err = AccessDenied

UsernameCollides(us, userData) ==
    /\ IsStr(Get(userData, "username"))
    /\ \E i \in 1..Len(us) : ToLowerCase(us[i]["username"]) = ToLowerCase(userData["username"])

EmailCollides(us, userData) ==
    /\ IsStr(Get(userData, "email"))
    /\ \E i \in 1..Len(us) : ToLowerCase(us[i]["email"]) = ToLowerCase(userData["email"])

\* C5 (as claimed): registerUser with a username or email equal, ignoring case,
\* to an existing account's always fails with the error naming the colliding
\* field and leaves the accounts, the next id and the persisted blob unchanged.
C5_CollisionNamesField ==
    [][ (ret'.op = "registerUser" /\ (UsernameCollides(users, ret'.data) \/ EmailCollides(users, ret'.data))) =>
          /\ \/ UsernameCollides(users, ret'.data) /\ ret'.err = "Username already exists"
             \/ EmailCollides(users, ret'.data) /\ ret'.err = "Email address already registered"
          /\ UNCHANGED <<users, nextUserId, storage>> ]_vars

\* the checks registerUser makes before the uniqueness checks all pass
PassesEarlierChecks(userData) ==
    /\ \A f \in {"username", "password", "email", "fullName"} : Truthy(Get(userData, f))
    /\ Len(userData["username"].v) >= 3
    /\ validUsernameChars(userData["username"])

\* C5 (amended): registerUser with a username or email equal, ignoring case, to
\* an existing account's always fails and leaves the accounts, the next id and
\* the persisted blob unchanged; when the input passes the earlier checks
\* (required fields, username length and characters) the error names the
\* colliding field, the username when both collide.
C5_CollisionRejected ==
    [][ (ret'.op = "registerUser" /\ (UsernameCollides(users, ret'.data) \/ EmailCollides(users, ret'.data))) =>
          /\ ret'.err # ""
          /\ UNCHANGED <<users, nextUserId, storage>>
          /\ PassesEarlierChecks(ret'.data) =>
               ret'.err = IF UsernameCollides(users, ret'.data)
                          THEN "Username already exists"
                          ELSE "Email address already registered" ]_vars

\* a registration refused for an email that differs from the stored one only in case
C5_Witness ==
    /\ ret.op = "registerUser"
    /\ ret.err = "Email address already registered"
    /\ \A i \in 1..Len(users) : users[i]["email"] # ret.data["email"]
    /\ \E i \in 1..Len(users) : ToLowerCase(users[i]["email"]) = ToLowerCase(ret.data["email"])

\* C6: an authenticate that matches no account returns null and leaves the
\* session pointer, its persisted copy and the accounts unchanged, with or
\* without a session before the call.
C6_FailedLoginChangesNothing ==
    [][ LET u == ret'.data["username"]
            p == ret'.data["password"]
        IN  ( /\ ret'.op = "authenticate"
              /\ Truthy(u) /\ Truthy(p)
              /\ ~ \E i \in 1..Len(users) :
                     /\ ToLowerCase(users[i]["username"]) = ToLowerCase(Trim(u))
                     /\ users[i]["password"] = p
                     /\ Get(users[i], "isActive") # Bool(FALSE) ) =>
            /\ ret'.val = Null
            /\ ret'.err = ""
            /\ UNCHANGED <<currentUser, users, nextUserId, storage>> ]_vars

\* a failed login (right username, wrong password) under a live session
C6_Witness ==
    /\ ret.op = "authenticate" /\ ret.err = "" /\ ret.val = Null
    /\ currentUser # Null
    /\ Parse(storage["currentUser"]) = currentUser
    /\ \E i \in 1..Len(users) :
         ToLowerCase(users[i]["username"]) = ToLowerCase(Trim(ret.data["username"]))

-----------------------------------------------------------------------------
(* Further properties of EventModel, checked under SpecEvents *)

\* C11 (as claimed): addEvent, or updateEvent of an id in the collection,
\* called with one of the five required fields missing or empty after trimming
\* throws the validation error and leaves the collection and the persisted
\* blob unchanged.
C11_BlankFieldRejected ==
    [][ ( /\ ~ValidEventInput(ret'.data)
          /\ \/ ret'.op = "addEvent"
             \/ ret'.op = "updateEvent" /\ getEventById(events, ret'.id) # Null ) =>
          /\ ret'.err = "All fields are required"
          /\ UNCHANGED <<events, nextId, storage>> ]_vars

-----------------------------------------------------------------------------
(* Further properties of AuthModel, checked under SpecAuth *)

AdminCount(us) == Cardinality({i \in 1..Len(us) : Get(us[i], "role") = Str(<<"a","d","m","i","n">>)})

\* C12: the account a successful registerUser creates has role user, isActive
\* true and lastLogin null whatever role or isActive the input carries, gets
\* the next id, and is returned without a password field; the number of admin
\* accounts does not grow.
C12_RegistrationIsPlainUser ==
    [][ (ret'.op = "registerUser" /\ ret'.err = "") =>
          LET created == users'[Len(users')]
          IN  /\ Len(users') = Len(users) + 1
              /\ SubSeq(users', 1, Len(users)) = users
              /\ created["role"] = Str(<<"u","s","e","r">>)
              /\ created["isActive"] = Bool(TRUE)
              /\ created["lastLogin"] = Null
              /\ created["id"] = Num(nextUserId)
              /\ nextUserId' = nextUserId + 1
              /\ "password" \notin DOMAIN ret'.val
              /\ ret'.val = Omit(created, "password")
              /\ AdminCount(users') = AdminCount(users) ]_vars

\* a registration that asked for role admin and isActive false went through
C12_Witness ==
    /\ ret.op = "registerUser" /\ ret.err = ""
    /\ ret.data["role"] = Str(<<"a","d","m","i","n">>)
    /\ ret.data["isActive"] = Bool(FALSE)
    /\ Len(users) = 3

-----------------------------------------------------------------------------
(* The application started over what localStorage may already hold.  No      *)
(* operation of the repository clears isActive or empties the collection, so  *)
(* the deactivated account the `u.isActive !== false` test of authenticate is *)
(* written for, and the empty collection, are part of the persisted blob the  *)
(* models are constructed from.                                               *)

DeactivatedAccount(now) ==
    [ id        |-> Num(3),
      username  |-> Str(<<"c","a","r","o","l">>),
      password  |-> Str(<<"s","e","c","r","e","t","1">>),
      role      |-> Str(<<"u","s","e","r">>),
      email     |-> Str(<<"c","@","x",".","i","o">>),
      fullName  |-> Str(<<"C","a","r","o","l"," ","C">>),
      phone     |-> Str(<<>>),
      createdAt |-> Ts(now),
      isActive  |-> Bool(FALSE),
      lastLogin |-> Null ]

\* what the 'users' key of localStorage may hold when the application is
\* first constructed: nothing, an empty collection, or the default accounts
\* and a deactivated one
PersistedUsers ==
    { Null,
      StringifyArray(<<>>),
      StringifyArray(Append(defaultUsers(0), DeactivatedAccount(0))) }

InitPersisted ==
    \E blob \in PersistedUsers :
        LET st == SetItem(EmptyStorage, "users", blob)
        IN  /\ clock = 0
            /\ storage = loadUsersStorage(st, 0, TRUE)
            /\ events = loadEvents(storage)
            /\ nextId = getNextId(events)
            /\ users = loadUsers(st, 0)
            /\ currentUser = loadCurrentUser(storage)
            /\ nextUserId = getNextUserId(users)
            /\ ret = Returned("new", Null, EmptyObj, Undefined)
            /\ issued = <<>>

isAuthenticated(cur) == cur # Null
validateSession(cur) == Truthy(cur)

\* new EventController() over the storage st: both models are constructed
\* from it, then init() keeps a valid session or calls logout()
startApp(st, okSeed, okLogout) ==
    LET seeded == loadUsersStorage(st, clock, okSeed)
        cur == loadCurrentUser(seeded)
        valid == isAuthenticated(cur) /\ validateSession(cur)
    IN  /\ events' = loadEvents(st)
        /\ nextId' = getNextId(events')
        /\ users' = loadUsers(st, clock)
        /\ nextUserId' = getNextUserId(users')
        /\ currentUser' = IF valid \/ ~okLogout THEN cur ELSE Null
        /\ storage' = IF valid \/ ~okLogout THEN seeded ELSE RemoveItem(seeded, "currentUser")
        /\ UNCHANGED <<clock, issued>>

\* the page is loaded again
constructEventController(okSeed, okLogout) ==
    /\ startApp(storage, okSeed, okLogout)
    /\ ret' = Returned("new EventController", Null, EmptyObj, Undefined)

\* DevTools.resetData(): localStorage.clear(), then location.reload()
resetData(okSeed, okLogout) ==
    /\ startApp(EmptyStorage, okSeed, okLogout)
    /\ ret' = Returned("resetData", Null, EmptyObj, Undefined)

LoginUsernames == {Str(<<" ","A","D","M","I","N"," ">>), Str(<<"u","s","e","r">>), Str(<<"c","a","r","o","l">>), Str(<<"C","a","r","o","l">>), Str(<<"d","a","v","e">>)}
LoginPasswords == {Str(<<"p","a","s","s","w","o","r","d">>), Str(<<"1","2","3","4","5","6">>), Str(<<"s","e","c","r","e","t","1">>)}

NextLogin ==
    \/ \E u \in LoginUsernames, p \in LoginPasswords : authenticate(u, p, TRUE)
    \/ logout(TRUE)
    \/ constructAuthModel(TRUE)
    \/ constructEventController(TRUE, TRUE)
    \/ resetData(TRUE, TRUE)

SpecLogin == InitPersisted /\ [][NextLogin]_vars

(* Properties of authenticate, checked under SpecLogin *)

\* C13 (as claimed): authenticate with both arguments non-empty succeeds if
\* and only if some account has a username equal to the given one ignoring
\* case, a password equal to the given one exactly, and is active.
C13_LoginIffCaseInsensitiveMatch ==
    [][ LET u == ret'.data["username"]
            p == ret'.data["password"]
        IN  (ret'.op = "authenticate" /\ Truthy(u) /\ Truthy(p)) =>
              ( (ret'.err = "" /\ ret'.val # Null) <=>
                  \E i \in 1..Len(users) :
                     /\ ToLowerCase(users[i]["username"]) = ToLowerCase(u)
                     /\ users[i]["password"] = p
                     /\ Get(users[i], "isActive") # Bool(FALSE) ) ]_vars

\* C13 (amended): authenticate with both arguments non-empty succeeds if and
\* only if some account has a username equal, ignoring case, to the given one
\* with its surrounding whitespace removed, a password equal to the given one
\* exactly, and is not deactivated; on success the session is that account's
\* and becomes the current one.  A deactivated account is never authenticated.
C13_LoginIffTrimmedMatch ==
    [][ LET u == ret'.data["username"]
            p == ret'.data["password"]
            Matches == {i \in 1..Len(users) :
                          /\ ToLowerCase(users[i]["username"]) = ToLowerCase(Trim(u))
                          /\ users[i]["password"] = p
                          /\ Get(users[i], "isActive") # Bool(FALSE)}
        IN  (ret'.op = "authenticate" /\ Truthy(u) /\ Truthy(p)) =>
              /\ (ret'.err = "" /\ ret'.val # Null) <=> Matches # {}
              /\ Matches # {} =>
                   /\ \E i \in Matches : ret'.val["id"] = users[i]["id"]
                   /\ currentUser' = ret'.val
              /\ \A i \in 1..Len(users) :
                   (Get(users[i], "isActive") = Bool(FALSE) /\ ret'.val # Null) =>
                       ret'.val["id"] # users[i]["id"] ]_vars

\* a login that succeeded with a username given in other case and padded with blanks
C13_Witness ==
    /\ ret.op = "authenticate" /\ ret.err = "" /\ ret.val # Null
    /\ ret.data["username"] # ret.val["username"]
    /\ currentUser = ret.val
    /\ \E i \in 1..Len(users) : Get(users[i], "isActive") = Bool(FALSE)

NameMatches(u, username) == ToLowerCase(u["username"]) = ToLowerCase(Trim(username))

\* the three causes of a failed login
CauseAbsent(us, username, password) ==
    \A i \in 1..Len(us) : ~NameMatches(us[i], username)
CauseWrongPassword(us, username, password) ==
    /\ \E i \in 1..Len(us) : NameMatches(us[i], username)
    /\ \A i \in 1..Len(us) : NameMatches(us[i], username) => us[i]["password"] # password
CauseInactive(us, username, password) ==
    /\ \E i \in 1..Len(us) : NameMatches(us[i], username) /\ us[i]["password"] = password
    /\ \A i \in 1..Len(us) :
         (NameMatches(us[i], username) /\ us[i]["password"] = password) =>
             Get(us[i], "isActive") = Bool(FALSE)

\* C18: a login that fails because the username is absent, because the
\* password is wrong or because the account is deactivated gives the same
\* outcome, the null signal with no error, and leaves every part of the state
\* as it was: nothing the caller sees tells the three causes apart.
C18_FailureCausesIndistinguishable ==
    [][ LET u == ret'.data["username"]
            p == ret'.data["password"]
        IN  ( /\ ret'.op = "authenticate" /\ Truthy(u) /\ Truthy(p)
              /\ \/ CauseAbsent(users, u, p)
                 \/ CauseWrongPassword(users, u, p)
                 \/ CauseInactive(users, u, p) ) =>
            /\ [op |-> ret'.op, id |-> ret'.id, val |-> ret'.val, err |-> ret'.err]
                 = [op |-> "authenticate", id |-> Null, val |-> Null, err |-> ""]
            /\ UNCHANGED <<events, nextId, users, currentUser, nextUserId, storage, clock, issued>> ]_vars

\* a login refused for a deactivated account whose credentials were right,
\* while another account's session is current
C18_Witness ==
    /\ ret.op = "authenticate" /\ ret.err = "" /\ ret.val = Null
    /\ CauseInactive(users, ret.data["username"], ret.data["password"])
    /\ currentUser # Null

\* C14: logout clears the session pointer and its persisted copy, raises no
\* error and touches nothing else; called when already logged out it changes
\* nothing, so a second logout leaves the state of the first.
C14_LogoutClearsAndIsIdempotent ==
    [][ ret'.op = "logout" =>
          /\ ret'.err = ""
          /\ currentUser' = Null
          /\ storage'["currentUser"] = Null
          /\ \A k \in StorageKeys \ {"currentUser"} : storage'[k] = storage[k]
          /\ UNCHANGED <<events, nextId, users, nextUserId, clock, issued>>
          /\ (currentUser = Null /\ storage["currentUser"] = Null) =>
                 UNCHANGED <<currentUser, storage>>
          /\ RemoveItem(storage', "currentUser") = storage' ]_vars

\* a logout that ended the session of an account that had logged in
C14_Witness ==
    /\ ret.op = "logout"
    /\ currentUser = Null /\ storage["currentUser"] = Null
    /\ \E i \in 1..Len(users) : Get(users[i], "lastLogin") \notin {Null, Undefined}

\* C15: constructing the stores seeds and persists the two default accounts,
\* one admin and one user, exactly when the 'users' key holds nothing; over
\* any persisted collection, the empty one included, the collection is the
\* persisted one and nothing is written.  After DevTools.resetData has
\* cleared localStorage there is no persisted collection, and the reload seeds.
C15_SeedOnlyWithoutPersistedCollection ==
    [][ /\ ret'.op \in {"new AuthModel", "new EventController"} =>
          IF storage["users"] = Null
          THEN /\ users' = defaultUsers(clock)
               /\ Len(users') = 2
               /\ users'[1]["role"] = Str(<<"a","d","m","i","n">>)
               /\ users'[2]["role"] = Str(<<"u","s","e","r">>)
               /\ storage'["users"] = StringifyArray(users')
          ELSE /\ users' = Parse(storage["users"])
               /\ storage'["users"] = storage["users"]
        /\ ret'.op = "resetData" =>
               /\ users' = defaultUsers(clock)
               /\ storage'["users"] = StringifyArray(users') ]_vars

\* a restart over a persisted empty collection: no account appears
C15_Witness ==
    /\ ret.op \in {"new AuthModel", "new EventController"}
    /\ storage["users"] = StringifyArray(<<>>)
    /\ users = <<>>

\* C17: over authenticate, logout and restart, the session changes only by a
\* successful authenticate, which makes it the session returned, and by
\* logout, which removes it; a failed authenticate and a restart (of the
\* AuthModel alone or of the whole application) leave it as it was, present
\* or absent.
C17_SessionLifecycle ==
    [][ /\ ret'.op = "authenticate" =>
             IF ret'.err = "" /\ ret'.val # Null
             THEN currentUser' = ret'.val /\ currentUser' # Null
             ELSE currentUser' = currentUser
        /\ ret'.op = "logout" => currentUser' = Null
        /\ ret'.op \in {"new AuthModel", "new EventController"} => currentUser' = currentUser ]_vars

\* the application restarted and the session of an earlier login is still there
C17_Witness ==
    /\ ret.op = "new EventController"
    /\ currentUser # Null
    /\ storage["currentUser"] # Null

\* C16 (as claimed): after every mutating operation whose writes land, the
\* persisted blobs hold the in-memory collections: the stores reconstructed
\* from localStorage equal, field for field, the accounts and events in memory.
C16_PersistedEqualsMemory ==
    /\ storage["users"] # Null
    /\ Parse(storage["users"]) = users
    /\ loadEvents(storage) = events

AdminOps == {"getAllUsers", "getUserByUsername", "exportUsers", "getStatistics"}

\* C19: getAllUsers, getUserByUsername, the user export and the statistics
\* decide by the session as it is when they are called: each fails, returning
\* nothing and changing nothing, whenever the session is absent or not an
\* admin's, and succeeds when it is an admin's.  logout and the successful
\* login of a non-admin leave no admin session, and only the successful login
\* of an admin account makes one.
C19_AdminCheckAtCallTime ==
    [][ /\ (ret'.op \in AdminOps /\ ~SessionIsAdmin) =>
              /\ ret'.err # "" /\ ret'.val = Undefined
              /\ UNCHANGED <<events, nextId, users, currentUser, nextUserId, storage, clock, issued>>
        /\ (ret'.op \in AdminOps /\ SessionIsAdmin) => ret'.err = ""
        /\ ret'.op = "logout" => ~SessionIsAdmin'
        /\ (ret'.op = "authenticate" /\ ret'.err = "" /\ ret'.val # Null
              /\ ret'.val["role"] # Str(<<"a","d","m","i","n">>)) => ~SessionIsAdmin'
        /\ (~SessionIsAdmin /\ SessionIsAdmin') =>
              /\ ret'.op = "authenticate" /\ ret'.err = ""
              /\ ret'.val # Null /\ ret'.val["role"] = Str(<<"a","d","m","i","n">>) ]_vars

\* the export refused under the session of a non-admin who logged in after
\* the admin had
C19_Witness ==
    /\ ret.op = "exportUsers" /\ ret.err # ""
    /\ currentUser # Null /\ currentUser["role"] = Str(<<"u","s","e","r">>)
    /\ Get(users[1], "lastLogin") \notin {Null, Undefined}
    /\ users[1]["role"] = Str(<<"a","d","m","i","n">>)

-----------------------------------------------------------------------------
(* Callers of getAllEvents *)

\* getAllEvents(): `[...this.events]`, a new array whose elements are the
\* stored objects themselves; an element is modelled as the reference to the
\* stored event, its index in this.events
getAllEvents(evs) == [i \in 1..Len(evs) |-> i]

\* what the caller reads through the references it holds
Deref(evs, refs) == Arr([k \in 1..Len(refs) |-> IF refs[k] = 0 THEN EmptyObj ELSE evs[refs[k]]])

\* const all = model.getAllEvents(); all.push({})
callerPushes ==
    /\ ret' = Returned("getAllEvents", Null, [then |-> "push"],
                       Deref(events, Append(getAllEvents(events), 0)))
    /\ UNCHANGED <<events, nextId, storage, clock, issued>>
    /\ UNCHANGED authVars

\* const all = model.getAllEvents(); all.pop()
callerPops ==
    /\ ret' = Returned("getAllEvents", Null, [then |-> "pop"],
                       Deref(events, SubSeq(getAllEvents(events), 1, Len(events) - 1)))
    /\ UNCHANGED <<events, nextId, storage, clock, issued>>
    /\ UNCHANGED authVars

\* const all = model.getAllEvents(); all[k].title = title : the write goes to
\* the object the element refers to
callerSetsTitle(k, title) ==
    LET all == getAllEvents(events)
    IN  /\ k \in 1..Len(all)
        /\ events' = [events EXCEPT ![all[k]] = Put(@, "title", title)]
        /\ ret' = Returned("getAllEvents", Null, [then |-> "set title"], Deref(events', all))
        /\ UNCHANGED <<nextId, storage, clock, issued>>
        /\ UNCHANGED authVars

CallerTitles == {Str(<<"x">>)}

NextCallers ==
    \/ \E d \in {BaseEvent, Put(BaseEvent, "title", Str(<<" ","X"," ">>))} : addEvent(d, TRUE)
    \/ \E id \in {Num(1), Num(2)} : deleteEvent(id, TRUE)
    \/ callerPushes
    \/ callerPops
    \/ \E k \in 1..Len(events), t \in CallerTitles : callerSetsTitle(k, t)
    \/ constructEventModel

SpecCallers == Init /\ [][NextCallers]_vars

\* C20 (as claimed): whatever a caller does to the value getAllEvents
\* returned, adding or removing elements or writing a field of a returned
\* record, the collection of the store and every stored event stay as they were.
C20_ReturnedCopyIsDefensive ==
    [][ ret'.op = "getAllEvents" => UNCHANGED <<events, nextId, storage>> ]_vars

-----------------------------------------------------------------------------
(* The operations with writes that may throw (localStorage.setItem and        *)
(* removeItem raising, as when the quota is exceeded)                         *)

FailureEvents == {BaseEvent, Put(BaseEvent, "title", Str(<<"X">>))}

NextWriteFailures ==
    \E ok \in BOOLEAN :
        \/ \E d \in FailureEvents : addEvent(d, ok)
        \/ \E d \in FailureEvents : updateEvent(Num(1), d, ok)
        \/ deleteEvent(Num(1), ok)
        \/ registerUser(BaseRegistration, ok)
        \/ \E u \in UsernameInputs, p \in PasswordInputs : authenticate(u, p, ok)
        \/ logout(ok)
        \/ constructEventController(ok, ok)

SpecWriteFailures == Init /\ [][NextWriteFailures]_vars

\* C21 (as claimed): whether or not its write lands, a mutating operation
\* raises no error but those of its own input checks, and its in-memory
\* effect stands: the created event or account is appended, the updated
\* event is in place, the deleted event is gone, after a successful
\* authenticate the session pointer is the session returned, and after
\* logout the session pointer is absent.
C21_WriteFailureAbsorbed ==
    [][ /\ (ret'.op = "addEvent" /\ ~MissingRequired(ret'.data)) =>
              ret'.err = "" /\ events' = Append(events, ret'.val)
        /\ (ret'.op = "updateEvent" /\ ~MissingRequired(ret'.data)
              /\ getEventById(events, ret'.id) # Null) =>
              ret'.err = "" /\ getEventById(events', ret'.id) = ret'.val
        /\ (ret'.op = "deleteEvent" /\ getEventById(events, ret'.id) # Null) =>
              ret'.err = "" /\ getEventById(events', ret'.id) = Null
        /\ (ret'.op = "registerUser" /\ registerError(users, ret'.data) = "") =>
              /\ ret'.err = "" /\ Len(users') = Len(users) + 1
              /\ WithoutPassword(users'[Len(users')]) = ret'.val
        /\ (ret'.op = "authenticate" /\ ret'.err = "" /\ ret'.val # Null) =>
              currentUser' = ret'.val
        /\ ret'.op = "logout" => ret'.err = "" /\ currentUser' = Null ]_vars

ProfileFields == {"fullName", "email", "phone", "updatedAt"}

\* C22: a successful updateUserProfile changes, in the account with the given
\* id, the fields fullName, email, phone and updatedAt only, whatever keys the
\* patch holds; every other field of that account and every other account
\* stay as they were, and a rejected call changes no account.
C22_UpdateProfileFrame ==
    [][ ret'.op = "updateUserProfile" =>
          IF ret'.err # ""
          THEN users' = users
          ELSE /\ Len(users') = Len(users)
               /\ nextUserId' = nextUserId
               /\ \E t \in 1..Len(users) :
                    /\ StrictEq(users[t]["id"], ParseInt(ret'.id))
                    /\ \A i \in 1..Len(users) : i # t => users'[i] = users[i]
                    /\ DOMAIN users'[t] \subseteq DOMAIN users[t] \cup ProfileFields
                    /\ \A k \in DOMAIN users[t] \ ProfileFields :
                         k \in DOMAIN users'[t] /\ users'[t][k] = users[t][k] ]_vars

\* a patch carrying id, password and role was applied
C22_Witness ==
    /\ ret.op = "updateUserProfile" /\ ret.err = ""
    /\ {"id", "password", "role"} \subseteq DOMAIN ret.data
    /\ \E i \in 1..Len(users) :
         /\ "updatedAt" \in DOMAIN users[i]
         /\ users[i]["fullName"] = Trim(ret.data["fullName"])
         /\ users[i]["password"] # ret.data["password"]

\* C23 (as claimed): an email in the patch of updateUserProfile is stored only
\* if it has the local@domain.tld shape and no other account has it, ignoring
\* case, and a phone only if it has the phone shape; a rejected patch changes
\* no account; so after any updateUserProfile, the empty-string email
\* included, every stored email has the shape.
C23_PatchFieldsValidated ==
    [][ ret'.op = "updateUserProfile" =>
          /\ (ret'.err = "" /\ "email" \in DOMAIN ret'.data) =>
                /\ validateEmailFormat(ret'.data["email"])
                /\ \A i \in 1..Len(users) :
                     ToLowerCase(users[i]["email"]) = ToLowerCase(ret'.data["email"]) =>
                         StrictEq(users[i]["id"], ParseInt(ret'.id))
          /\ (ret'.err = "" /\ Truthy(Get(ret'.data, "phone"))) =>
                validatePhoneFormat(ret'.data["phone"])
          /\ ret'.err # "" => users' = users
          /\ \A i \in 1..Len(users') : validateEmailFormat(users'[i]["email"]) ]_vars

\* C24 (as claimed): after a successful updateUserProfile whose id, given as a
\* number or as its string form, is that of the session's account, the
\* session's fullName, email and phone are those of the updated account, in
\* memory and in the persisted session; when the id is that of another
\* account the session is unchanged.
C24_SessionFollowsProfile ==
    [][ (ret'.op = "updateUserProfile" /\ ret'.err = "" /\ currentUser # Null) =>
          \E t \in 1..Len(users) :
             /\ StrictEq(users[t]["id"], ParseInt(ret'.id))
             /\ IF users[t]["id"] = currentUser["id"]
                THEN /\ currentUser' # Null
                     /\ storage'["currentUser"] # Null
                     /\ \A f \in AllowedFields :
                          /\ Get(currentUser', f) = Get(users'[t], f)
                          /\ Get(Parse(storage'["currentUser"]), f) = Get(users'[t], f)
                ELSE /\ currentUser' = currentUser
                     /\ storage'["currentUser"] = storage["currentUser"] ]_vars

LoginWorks(us, username, password) ==
    \E i \in 1..Len(us) : credentialsMatch(us[i], username, password)

\* C25 (as claimed): changePassword fails when no session is present, fails
\* with the authentication error when current is not the stored password of
\* the session's account, fails with the validation error when next has fewer
\* than 6 characters, each time leaving every stored password unchanged;
\* otherwise the stored password becomes next, and an authenticate of that
\* account then succeeds with next and fails with current.
C25_ChangePasswordThenOnlyNext ==
    [][ ret'.op = "changePassword" =>
          LET cur == ret'.data["currentPassword"]
              nxt == ret'.data["newPassword"]
          IN  IF currentUser = Null
              THEN ret'.err = "User not authenticated" /\ users' = users
              ELSE \E t \in 1..Len(users) :
                     /\ users[t]["username"] = currentUser["username"]
                     /\ IF users[t]["password"] # cur
                        THEN ret'.err = "Current password is incorrect" /\ users' = users
                        ELSE IF Len(nxt.v) < 6
                        THEN /\ ret'.err = "New password must be at least 6 characters long"
                             /\ users' = users
                        ELSE /\ ret'.err = "" /\ ret'.val = Bool(TRUE)
                             /\ users' = [users EXCEPT ![t] = Put(@, "password", nxt)]
                             /\ LoginWorks(users', users[t]["username"], nxt)
                             /\ ~LoginWorks(users', users[t]["username"], cur) ]_vars

\* C25 (amended): as claimed, except that after a successful change an
\* authenticate with current fails exactly when current differs from next.
C25_ChangePasswordThenNext ==
    [][ ret'.op = "changePassword" =>
          LET cur == ret'.data["currentPassword"]
              nxt == ret'.data["newPassword"]
          IN  IF currentUser = Null
              THEN ret'.err = "User not authenticated" /\ users' = users
              ELSE \E t \in 1..Len(users) :
                     /\ users[t]["username"] = currentUser["username"]
                     /\ IF users[t]["password"] # cur
                        THEN ret'.err = "Current password is incorrect" /\ users' = users
                        ELSE IF Len(nxt.v) < 6
                        THEN /\ ret'.err = "New password must be at least 6 characters long"
                             /\ users' = users
                        ELSE /\ ret'.err = "" /\ ret'.val = Bool(TRUE)
                             /\ users' = [users EXCEPT ![t] = Put(@, "password", nxt)]
                             /\ LoginWorks(users', users[t]["username"], nxt)
                             /\ LoginWorks(users', users[t]["username"], cur) <=> cur = nxt ]_vars

\* the password of the session's account was changed to a different one
C25_Witness ==
    /\ ret.op = "changePassword" /\ ret.val = Bool(TRUE)
    /\ ret.data["currentPassword"] # ret.data["newPassword"]
    /\ currentUser # Null
    /\ LoginWorks(users, currentUser["username"], ret.data["newPassword"])
    /\ ~LoginWorks(users, currentUser["username"], ret.data["currentPassword"])

PersistedUsersOf(st) == Parse(st["users"])

\* the persisted password of account t is not the one in memory: the state a
\* successful changePassword leaves
StalePassword(t) ==
    /\ t <= Len(PersistedUsersOf(storage))
    /\ PersistedUsersOf(storage)[t]["password"] # users[t]["password"]

C27_ProfileIsSelfLookup ==
    [][ (ret'.op = "getUserProfile" /\ ret'.val # Null) =>
          /\ "password" \notin DOMAIN ret'.val
          /\ currentUser # Null
          /\ ret'.val["id"] = currentUser["id"] ]_vars

\* C28: updateEvent and deleteEvent called with an id no event of the
\* collection has return null without raising an error, whether the data
\* given to updateEvent is valid or not, and leave the events, the next-id
\* counter and the persisted blob unchanged.
C28_AbsentIdIsNotFound ==
    [][ ( /\ ret'.op \in {"updateEvent", "deleteEvent"}
          /\ \A i \in 1..Len(events) : ~StrictEq(events[i]["id"], ParseInt(ret'.id)) ) =>
          /\ ret'.err = ""
          /\ ret'.val = Null
          /\ UNCHANGED <<events, nextId, storage, clock>> ]_vars

\* an update with a blank title and an id that is not in a non-empty collection
C28_Witness ==
    /\ ret.op = "updateEvent" /\ ret.err = "" /\ ret.val = Null
    /\ MissingRequired(ret.data)
    /\ Len(events) > 0
    /\ \A i \in 1..Len(events) : ~StrictEq(events[i]["id"], ParseInt(ret.id))

\* C29: in every state reached by authenticate, registerUser,
\* updateUserProfile, changePassword, logout and restart, a present session
\* is that of an account of the collection: some account has the session's
\* id, and its username and role are the session's.
C29_SessionRefersToAccount ==
    currentUser # Null =>
        \E i \in 1..Len(users) :
            /\ users[i]["id"] = currentUser["id"]
            /\ users[i]["username"] = currentUser["username"]
            /\ users[i]["role"] = currentUser["role"]

\* the admin's session after its profile was updated and the store restarted
C29_Witness ==
    /\ ret.op = "new AuthModel"
    /\ currentUser # Null
    /\ "updatedAt" \in DOMAIN currentUser
    /\ currentUser["role"] = Str(<<"a","d","m","i","n">>)

-----------------------------------------------------------------------------
(* The event form of the controller *)

\* EventView.getFormData(): the values of the five inputs
getFormData(raw) ==
    [ title       |-> Trim(raw["title"]),
      description |-> Trim(raw["description"]),
      date        |-> raw["date"],
      time        |-> raw["time"],
      location    |-> Trim(raw["location"]) ]

\* EventView.validateFormData(formData): the error messages in source order;
\* inPast stands for `new Date(date + ' ' + time) < new Date()`
validateFormData(formData, inPast) ==
    (IF ~Truthy(formData["title"]) THEN <<"Event title is required">> ELSE <<>>)
    \o (IF ~Truthy(formData["description"]) THEN <<"Event description is required">> ELSE <<>>)
    \o (IF ~Truthy(formData["date"]) THEN <<"Event date is required">> ELSE <<>>)
    \o (IF ~Truthy(formData["time"]) THEN <<"Event time is required">> ELSE <<>>)
    \o (IF ~Truthy(formData["location"]) THEN <<"Event location is required">> ELSE <<>>)
    \o (IF inPast THEN <<"Event date and time cannot be in the past">> ELSE <<>>)

\* errors.join('\n')
RECURSIVE JoinLines(_)
JoinLines(errors) ==
    IF Len(errors) = 1 THEN errors[1] ELSE errors[1] \o "\n" \o JoinLines(Tail(errors))

\* the event data of EventController.addEvent, had createdBy been left out
submissionEventData_anonymous(formData, cur) == formData

\* EventController.addEvent: { ...formData, createdBy: currentUser.username }
submissionEventData(formData, cur) == Put(formData, "createdBy", cur["username"])

\* EventController.handleEventSubmission() with the form holding raw and the
\* view editing the event editingId (null: a new event); the message the view
\* shows with showError is recorded in err
handleEventSubmission(raw, editingId, inPast, ok) ==
    /\ clock < MaxClock
    /\ LET formData == getFormData(raw)
           validationErrors == validateFormData(formData, inPast)
           index == FindIndex({i \in 1..Len(events) : StrictEq(events[i]["id"], ParseInt(editingId))})
           now == clock + 1
       IN  IF Len(validationErrors) > 0
           THEN /\ ret' = Threw("handleEventSubmission", editingId, raw, JoinLines(validationErrors))
                /\ UNCHANGED <<events, nextId, storage, clock, issued>>
           ELSE IF ~Truthy(currentUser)
           THEN /\ ret' = Threw("handleEventSubmission", editingId, raw,
                                "You must be logged in to perform this action.")
                /\ UNCHANGED <<events, nextId, storage, clock, issued>>
           ELSE IF editingId # Null
           THEN IF index = 0
                THEN /\ ret' = Threw("handleEventSubmission", editingId, raw,
                                     "Event not found. It may have been deleted by another user.")
                     /\ UNCHANGED <<events, nextId, storage, clock, issued>>
                ELSE IF MissingRequired(formData)
                THEN /\ ret' = Threw("handleEventSubmission", editingId, raw, "All fields are required")
                     /\ UNCHANGED <<events, nextId, storage, clock, issued>>
                ELSE /\ events' = [events EXCEPT ![index] = updatedEvent(events[index], formData, now)]
                     /\ storage' = saveEvents(storage, events', ok)
                     /\ clock' = now
                     /\ ret' = Returned("handleEventSubmission", editingId, raw, events'[index])
                     /\ UNCHANGED <<nextId, issued>>
           ELSE LET eventData == submissionEventData(formData, currentUser)
                    event == newEvent(eventData, nextId, now)
                IN  IF MissingRequired(eventData)
                    THEN /\ ret' = Threw("handleEventSubmission", editingId, raw, "All fields are required")
                         /\ UNCHANGED <<events, nextId, storage, clock, issued>>
                    ELSE /\ nextId' = nextId + 1
                         /\ events' = Append(events, event)
                         /\ storage' = saveEvents(storage, events', ok)
                         /\ clock' = now
                         /\ issued' = Append(issued, nextId)
                         /\ ret' = Returned("handleEventSubmission", editingId, raw, event)
    /\ UNCHANGED authVars

FormInputs ==
    { BaseEvent,
      Put(BaseEvent, "title", Str(<<" ","X"," ">>)),
      Put(BaseEvent, "location", Str(<<" ">>)) }

EditingIds == {Null, Num(1), Num(7)}

FormUsernames == {Str(<<" ","A","D","M","I","N"," ">>), Str(<<"u","s","e","r">>)}
FormPasswords == {Str(<<"p","a","s","s","w","o","r","d">>), Str(<<"1","2","3","4","5","6">>)}

NextForm ==
    \/ \E raw \in FormInputs, id \in EditingIds, inPast \in BOOLEAN :
          handleEventSubmission(raw, id, inPast, TRUE)
    \/ \E u \in FormUsernames, p \in FormPasswords : authenticate(u, p, TRUE)
    \/ logout(TRUE)
    \/ constructEventController(TRUE, TRUE)

SpecForm == Init /\ [][NextForm]_vars

\* C30: a form submission changes the events only while a session is present:
\* with no session it shows an error and changes nothing, so after logout no
\* submission changes the events until a login succeeds; a submission that
\* creates an event appends exactly one, whose createdBy is the username of
\* the session at that moment; a submission changes no account and no session.
C30_SubmissionNeedsSession ==
    [][ /\ ret'.op = "handleEventSubmission" =>
              /\ currentUser = Null =>
                    ret'.err # "" /\ UNCHANGED <<events, nextId, storage, clock, issued>>
              /\ events' # events => currentUser # Null /\ ret'.err = ""
              /\ Len(events') # Len(events) =>
                    /\ events' = Append(events, ret'.val)
                    /\ ret'.val["createdBy"] = currentUser["username"]
              /\ UNCHANGED <<users, currentUser, nextUserId>>
        /\ ret'.op = "logout" => currentUser' = Null /\ events' = events
        /\ (currentUser = Null /\ currentUser' # Null) =>
              ret'.op = "authenticate" /\ ret'.err = "" /\ ret'.val = currentUser' ]_vars

\* the demo user, logged in after the admin had been, created an event
C30_Witness ==
    /\ ret.op = "handleEventSubmission" /\ ret.err = "" /\ ret.id = Null
    /\ Len(events) = 1
    /\ events[1]["createdBy"] = Str(<<"u","s","e","r">>)
    /\ currentUser # Null /\ currentUser["username"] = Str(<<"u","s","e","r">>)
    /\ Get(users[1], "lastLogin") \notin {Null, Undefined}
    /\ ret.val = events[1]

====
